---------------------------- MODULE Spec2Model ----------------------------
(***************************************************************************)
(* bms-go: book catalogue and favorites REST API.                          *)
(*                                                                         *)
(* The store is the MySQL schema of database-schema.sql (tables books and  *)
(* favorites, both with a soft-deletion timestamp).  A request is the      *)
(* handler together with the service it calls; every call of a repository  *)
(* method is one statement sent to the database and is one atomic step of  *)
(* the request, so that the statements of concurrent requests interleave.  *)
(* Strings are sequences of one-character strings.                         *)
(***************************************************************************)
EXTENDS Integers, Sequences, FiniteSets, TLC

(***************************************************************************)
(* Bounds of the model.                                                    *)
(***************************************************************************)
MaxBooks == 2      \* rows the books table may come to hold
MaxFavs == 2       \* rows the favorites table may come to hold
NumProcs == 2      \* requests in flight at the same time
MaxPad == 1        \* whitespace characters around a payload field
MaxCatalogue == 3  \* rows of the catalogue that the searches run on
MaxFuzzyCatalogue == 2  \* rows of the catalogue that the fuzzy searches run on

Procs == 1..NumProcs
Users == {1, 2}
BookIDs == 0..(MaxBooks + 1)      \* identifiers a request may name (0: none)
FavIDs == 0..(MaxFavs + 1)

(***************************************************************************)
(* Strings.                                                                *)
(***************************************************************************)
IsSpace(c) == c = " "

\* strings.ToLower, on the characters of the model's alphabet
LowerChar(c) ==
  CASE c = "A" -> "a"
    [] c = "B" -> "b"
    [] OTHER -> c

ToLower(s) == [i \in 1..Len(s) |-> LowerChar(s[i])]

RECURSIVE TrimLeft(_)
TrimLeft(s) ==
  IF s # << >> /\ IsSpace(Head(s)) THEN TrimLeft(Tail(s)) ELSE s

RECURSIVE TrimRight(_)
TrimRight(s) ==
  IF s # << >> /\ IsSpace(s[Len(s)]) THEN TrimRight(SubSeq(s, 1, Len(s) - 1)) ELSE s

\* strings.TrimSpace
TrimSpace(s) == TrimRight(TrimLeft(s))

\* The bytes of the UTF-8 encoding of a character of the model's alphabet
Utf8Len(c) == IF c = "é" THEN 2 ELSE 1

\* len(s): the bytes of the string, one for every character and one more for
\* every character encoded in two
StrLen(s) == Len(s) + Cardinality({i \in 1..Len(s) : Utf8Len(s[i]) = 2})

\* The collation of both tables, utf8mb4_unicode_ci: comparison ignores case.
CollKey(s) == ToLower(s)

CollEqExact(a, b) == a = b

\* column = ? under the collation
CollEq(a, b) == CollKey(a) = CollKey(b)

\* column LIKE ?+'%' under the collation
HasPrefix(s, p) ==
  /\ Len(p) <= Len(s)
  /\ CollEq(SubSeq(s, 1, Len(p)), p)

\* column LIKE '%'+?+'%' under the collation
Contains(s, sub) ==
  \E i \in 0..(Len(s) - Len(sub)) : CollEq(SubSeq(s, i + 1, i + Len(sub)), sub)

\* Order of two characters under the collation
CharOrd(c) ==
  CASE c = " " -> 0
    [] LowerChar(c) = "a" -> 1
    [] LowerChar(c) = "b" -> 2
    [] LowerChar(c) = "c" -> 3
    [] LowerChar(c) = "d" -> 4
    [] LowerChar(c) = "e" -> 5
    [] LowerChar(c) = "g" -> 7
    [] LowerChar(c) = "h" -> 8
    [] LowerChar(c) = "i" -> 9
    [] LowerChar(c) = "n" -> 14
    [] LowerChar(c) = "o" -> 15
    [] LowerChar(c) = "p" -> 16
    [] LowerChar(c) = "r" -> 18
    [] LowerChar(c) = "s" -> 19
    [] LowerChar(c) = "t" -> 20
    [] LowerChar(c) = "x" -> 24
    [] LowerChar(c) = "y" -> 25
    [] OTHER -> 27

RECURSIVE CollLess(_, _)
\* a < b under the collation (the order of ORDER BY title ASC)
CollLess(a, b) ==
  IF b = << >> THEN FALSE
  ELSE IF a = << >> THEN TRUE
  ELSE IF CharOrd(Head(a)) # CharOrd(Head(b)) THEN CharOrd(Head(a)) < CharOrd(Head(b))
  ELSE CollLess(Tail(a), Tail(b))


(***************************************************************************)
(* Request payloads.  A payload field is a core with the same number of    *)
(* whitespace characters before and after it.                              *)
(***************************************************************************)
RECURSIVE Pad(_)
Pad(n) == IF n = 0 THEN << >> ELSE <<" ">> \o Pad(n - 1)

Padded(core, n) == Pad(n) \o core \o Pad(n)

\* The cores of the payloads: title, author, category
BookCores ==
  {[title |-> <<"a">>, author |-> <<"x">>, category |-> <<"c">>],
   [title |-> <<"A">>, author |-> <<"y">>, category |-> <<"c">>],
   [title |-> <<"b">>, author |-> <<"x">>, category |-> <<"c">>],
   [title |-> << >>, author |-> <<"x">>, category |-> <<"c">>]}

\* dto.BookRequest
BookRequests ==
  {[title |-> Padded(k.title, n), author |-> Padded(k.author, n),
    category |-> Padded(k.category, n)] : k \in BookCores, n \in 0..MaxPad}

NoBody == [title |-> << >>, author |-> << >>, category |-> << >>]

\* Search terms and category filters of GET /books
SearchTerms == {<< >>, <<"a">>, <<"x">>, <<"c">>}
CategoryFilters == {<< >>, <<"c">>, <<"d">>}

\* The rows of the catalogues that the searches run on: title, author, category
SearchCores ==
  {[title |-> <<"a">>, author |-> <<"x">>, category |-> <<"c">>],
   [title |-> <<"a", "b">>, author |-> <<"x">>, category |-> <<"y">>],
   [title |-> <<"b", "a">>, author |-> <<"y">>, category |-> <<"c">>],
   [title |-> <<"b">>, author |-> <<"a">>, category |-> <<"c">>],
   [title |-> <<"y">>, author |-> <<"x">>, category |-> <<"c">>]}

SearchRows ==
  {[title |-> k.title, author |-> k.author, category |-> k.category, deleted |-> d] :
     k \in SearchCores, d \in BOOLEAN}

\* The tables books of at most MaxCatalogue rows with different titles, the
\* deleted rows among them
Catalogues ==
  {bs \in UNION {[1..n -> SearchRows] : n \in 0..MaxCatalogue} :
     \A i, j \in 1..Len(bs) : i # j => bs[i].title # bs[j].title}

\* Query strings of GET /books/search
BaseSearch ==
  [query |-> <<"a">>, category |-> << >>, author |-> << >>, searchType |-> "",
   sortBy |-> "", sortOrder |-> "", limit |-> << >>, offset |-> << >>]

LimitStrings ==
  {<< >>, <<"x">>, <<"-", "1">>, <<"0">>, <<"1">>, <<"2">>, <<"1", "0", "0">>,
   <<"1", "0", "1">>}

OffsetStrings == {<< >>, <<"x">>, <<"-", "1">>, <<"0">>, <<"1">>, <<"2">>}

SearchRequests ==
  {[BaseSearch EXCEPT !.searchType = t, !.sortBy = f, !.sortOrder = o] :
     t \in {"", "exact", "starts_with", "contains", "fuzzy", "regex"},
     f \in {"", "title", "author", "category", "created_at", "relevance", "id"},
     o \in {"", "ASC", "DESC", "asc"}}
  \cup
  {[BaseSearch EXCEPT !.query = q, !.category = c, !.author = a, !.searchType = t,
                      !.sortBy = f, !.limit = l, !.offset = o] :
     q \in {<< >>, <<"a">>}, c \in {<< >>, <<"c">>}, a \in {<< >>, <<"x">>},
     t \in {"exact", "starts_with", "contains", "fuzzy"}, f \in {"", "title"},
     l \in {<< >>, <<"1">>}, o \in {<< >>, <<"1">>}}
  \cup
  {[BaseSearch EXCEPT !.sortBy = f, !.limit = l, !.offset = o] :
     f \in {"", "title"}, l \in LimitStrings, o \in OffsetStrings}

\* Query strings of GET /books/suggestions
SuggestionQueries == {<< >>, <<" ">>, <<"a">>, <<"x">>}
SuggestionLimits ==
  {<< >>, <<"x">>, <<"0">>, <<"1">>, <<"2">>, <<"2", "0">>, <<"2", "1">>}

(***************************************************************************)
(* The store.                                                              *)
(***************************************************************************)
VARIABLES
  books,       \* table books: row id |-> [title, author, category, deleted]
  favorites,   \* table favorites: row id |-> [user, book, deleted]
  req          \* the requests in flight: slot |-> request

vars == <<books, favorites, req>>

\* A row of books that a query scoped by deleted_at IS NULL sees
BookLive(bs, id) == id \in 1..Len(bs) /\ ~bs[id].deleted

\* A row of favorites that a query sees (gorm.Model adds deleted_at IS NULL)
FavLive(fs, fid) == fid \in 1..Len(fs) /\ ~fs[fid].deleted

\* BookRepository.FindByID: the row's id, 0 for gorm.ErrRecordNotFound
BookFindByID(bs, id) == IF BookLive(bs, id) THEN id ELSE 0

\* BookRepository.Exists
BookExists(bs, id) == Cardinality({i \in 1..Len(bs) : i = id /\ ~bs[i].deleted}) > 0

Min(S) == CHOOSE x \in S : \A y \in S : x <= y

FindByTitleExact(bs, title) ==
  LET hits == {i \in 1..Len(bs) : ~bs[i].deleted /\ CollEqExact(bs[i].title, title)}
  IN IF hits = {} THEN 0 ELSE Min(hits)

\* A FindByTitle that also sees the soft-deleted rows
FindByTitleUnscoped(bs, title) ==
  LET hits == {i \in 1..Len(bs) : CollEq(bs[i].title, title)}
  IN IF hits = {} THEN 0 ELSE Min(hits)

\* BookRepository.FindByTitle: First() orders by the primary key
FindByTitle(bs, title) ==
  LET hits == {i \in 1..Len(bs) : ~bs[i].deleted /\ CollEq(bs[i].title, title)}
  IN IF hits = {} THEN 0 ELSE Min(hits)

\* BookRepository.Create: AUTO_INCREMENT id, deleted_at NULL
BookCreate(bs, book) ==
  Append(bs, [title |-> book.title, author |-> book.author,
              category |-> book.category, deleted |-> FALSE])

\* An Update whose statement lacks deleted_at IS NULL
BookUpdateUnscoped(bs, id, book) ==
  IF id \in 1..Len(bs)
  THEN [bs EXCEPT ![id] =
         [title |-> book.title, author |-> book.author,
          category |-> book.category, deleted |-> @.deleted]]
  ELSE bs

\* BookRepository.Update: UPDATE ... WHERE id = ? AND deleted_at IS NULL;
\* Updates() writes the non-zero fields of the struct
BookUpdate(bs, id, book) ==
  IF BookLive(bs, id)
  THEN [bs EXCEPT ![id] =
         [title |-> IF book.title # << >> THEN book.title ELSE @.title,
          author |-> IF book.author # << >> THEN book.author ELSE @.author,
          category |-> IF book.category # << >> THEN book.category ELSE @.category,
          deleted |-> @.deleted]]
  ELSE bs

BookDeleteNoop(bs, id) == bs

\* BookRepository.Delete: gorm soft delete,
\* UPDATE books SET deleted_at = now WHERE id = ? AND deleted_at IS NULL
BookDelete(bs, id) ==
  IF BookLive(bs, id) THEN [bs EXCEPT ![id].deleted = TRUE] ELSE bs

\* fk_favorites_book_id ON DELETE CASCADE acts when a row of books is removed;
\* the soft delete is an UPDATE, so the favorites table is left as it is.
FavoritesAfterBookDelete(fs, id) == fs


SearchRankFlat(b, search) == 5

\* The CASE expression of the raw ORDER BY of BookRepository.FindAll
SearchRank(b, search) ==
  IF CollEq(b.title, search) THEN 1
  ELSE IF HasPrefix(b.title, search) THEN 2
  ELSE IF Contains(b.title, search) THEN 3
  ELSE IF Contains(b.author, search) THEN 4
  ELSE 5

\* ORDER BY rank, title ASC (rows equal in both keys: by id)
RankBefore(bs, search, i, j) ==
  LET ri == SearchRank(bs[i], search)
      rj == SearchRank(bs[j], search)
  IN \/ ri < rj
     \/ ri = rj /\ CollLess(bs[i].title, bs[j].title)
     \/ ri = rj /\ ~CollLess(bs[i].title, bs[j].title)
               /\ ~CollLess(bs[j].title, bs[i].title) /\ i < j

RECURSIVE SortByRank(_, _, _)
SortByRank(bs, search, S) ==
  IF S = {} THEN << >>
  ELSE LET first == CHOOSE i \in S : \A j \in S \ {i} : RankBefore(bs, search, i, j)
       IN <<first>> \o SortByRank(bs, search, S \ {first})

RECURSIVE SortByID(_)
SortByID(S) == IF S = {} THEN << >> ELSE <<Min(S)>> \o SortByID(S \ {Min(S)})

\* The WHERE clause of the search of BookRepository.FindAll
SearchMatch(b, search) ==
  \/ CollEq(b.title, search)
  \/ HasPrefix(b.title, search)
  \/ Contains(b.title, search)
  \/ Contains(b.author, search)
  \/ Contains(b.category, search)

\* BookRepository.FindAll: the ids of the rows returned, in order.  With a
\* search term the statement is the raw SELECT, which replaces the clauses
\* built before it (the category filter among them).
FindAll(bs, search, category) ==
  IF search # << >>
  THEN SortByRank(bs, TrimSpace(search),
         {i \in 1..Len(bs) : ~bs[i].deleted /\ SearchMatch(bs[i], TrimSpace(search))})
  ELSE SortByID({i \in 1..Len(bs) :
         /\ ~bs[i].deleted
         /\ category # << >> => CollEq(bs[i].category, TrimSpace(category))})

(***************************************************************************)
(* FavoriteRepository.                                                     *)
(***************************************************************************)
\* Preload("Book") of FavoriteRepository.FindAll.  model.Favorite declares no
\* association Book: gorm's preload callback reports the name as an
\* unsupported relation and Find returns that error, whatever the rows are;
\* the gorm version is not pinned in the sources, so a version that leaves an
\* unknown name alone is kept as the other outcome.
PreloadBook == {"unsupported", "ignored"}

\* FavoriteRepository.FindAll: the user's rows, in primary-key order
FavFindAll(fs, user) ==
  SortByID({f \in 1..Len(fs) : ~fs[f].deleted /\ fs[f].user = user})

\* FavoriteRepository.FindByID: the row's id, 0 for gorm.ErrRecordNotFound
FavFindByID(fs, user, fid) ==
  IF FavLive(fs, fid) /\ fs[fid].user = user THEN fid ELSE 0

FavExistsNever(fs, user, book) == FALSE

\* FavoriteRepository.Exists
FavExists(fs, user, book) ==
  Cardinality({f \in 1..Len(fs) :
     ~fs[f].deleted /\ fs[f].user = user /\ fs[f].book = book}) > 0

UniqueUserBookOff(fs, user, book) == TRUE

\* UNIQUE KEY unique_user_book (user_id, book_id): over every row of the
\* table, the soft-deleted ones included
UniqueUserBook(fs, user, book) ==
  \A f \in 1..Len(fs) : ~(fs[f].user = user /\ fs[f].book = book)

\* fk_favorites_book_id: the referenced row of books exists
ForeignKeyBook(bs, book) == book \in 1..Len(bs)

\* FavoriteRepository.Create: TRUE when the INSERT is accepted
FavCreateAccepted(bs, fs, user, book) ==
  UniqueUserBook(fs, user, book) /\ ForeignKeyBook(bs, book)

FavCreate(fs, user, book) ==
  Append(fs, [user |-> user, book |-> book, deleted |-> FALSE])

\* A Delete that does not look at the user
FavDeleteAnyUser(fs, user, fid) ==
  IF FavLive(fs, fid) THEN [fs EXCEPT ![fid].deleted = TRUE] ELSE fs

\* FavoriteRepository.Delete: gorm soft delete of the rows matching
\* id = ? AND user_id = ?; no error when no row matches
FavDelete(fs, user, fid) ==
  IF FavLive(fs, fid) /\ fs[fid].user = user
  THEN [fs EXCEPT ![fid].deleted = TRUE]
  ELSE fs


(***************************************************************************)
(* Validation.                                                             *)
(***************************************************************************)
MaxFieldLen == 255

\* binding:"required" of dto.BookRequest: no field is the empty string
BindBookRequest(body) ==
  body.title # << >> /\ body.author # << >> /\ body.category # << >>

\* BookHandler.validateBookRequest: the field of the ValidationError, "" for nil
validateBookRequest(body) ==
  IF TrimSpace(body.title) = << >> THEN "title"
  ELSE IF StrLen(body.title) > MaxFieldLen THEN "title"
  ELSE IF TrimSpace(body.author) = << >> THEN "author"
  ELSE IF StrLen(body.author) > MaxFieldLen THEN "author"
  ELSE IF TrimSpace(body.category) = << >> THEN "category"
  ELSE IF StrLen(body.category) > MaxFieldLen THEN "category"
  ELSE ""

\* BookService.validateBook: TRUE for a nil error
validateBook(book) ==
  /\ TrimSpace(book.title) # << >> /\ StrLen(book.title) <= MaxFieldLen
  /\ TrimSpace(book.author) # << >> /\ StrLen(book.author) <= MaxFieldLen
  /\ TrimSpace(book.category) # << >> /\ StrLen(book.category) <= MaxFieldLen

NewBookRaw(body) ==
  [title |-> body.title, author |-> body.author, category |-> body.category]

\* The model.Book that the handlers build from the request
NewBook(body) ==
  [title |-> TrimSpace(body.title),
   author |-> TrimSpace(body.author),
   category |-> TrimSpace(body.category)]

\* binding:"required" of dto.FavoriteRequest and validateFavoriteRequest
validateFavoriteRequest(book) == book # 0


(***************************************************************************)
(* Requests.                                                               *)
(***************************************************************************)
\* dto.APIResponse: status code, kind of the error, the field that a
\* ValidationError names, data
NoRes == [status |-> 0, err |-> "", field |-> "", id |-> 0, data |-> << >>]

\* The query string of a request without one
NoRaw ==
  [query |-> << >>, category |-> << >>, author |-> << >>, searchType |-> "",
   sortBy |-> "", sortOrder |-> "", limit |-> << >>, offset |-> << >>]

\* repository.AdvancedSearchParams before a search request has built them
NoParams ==
  [query |-> << >>, category |-> << >>, author |-> << >>, searchType |-> "",
   sortBy |-> "", sortOrder |-> "", limit |-> 0, offset |-> 0]

IdleReq ==
  [op |-> "Idle", pc |-> "idle", user |-> 0, id |-> 0, body |-> NoBody,
   q |-> << >>, cat |-> << >>, alone |-> TRUE, newid |-> 0, todo |-> << >>,
   raw |-> NoRaw, params |-> NoParams, issued |-> FALSE, patterns |-> << >>,
   res |-> NoRes]

InFlight(r) == r.pc \notin {"idle", "done"}

\* A new request
Begin(op, user, id, body) ==
  [IdleReq EXCEPT !.op = op, !.pc = "start", !.user = user, !.id = id, !.body = body]

\* The response is a ValidationError that names a field
RespondField(r, field) ==
  [r EXCEPT !.pc = "done",
            !.res = [status |-> 400, err |-> "ValidationError", field |-> field,
                     id |-> 0, data |-> << >>]]

\* The response is written: status code, kind of the error, data
Respond(r, status, err, id, data) ==
  [r EXCEPT !.pc = "done",
            !.res = [status |-> status, err |-> err, field |-> "", id |-> id,
                     data |-> data]]

\* Request r of slot p has taken a step.  wrote tells whether the step sent a
\* writing statement, which every other request in flight may observe (alone
\* records that no writing statement of another request came between the
\* statements of the request).
Commit(p, r, wrote) ==
  req' = [s \in Procs |->
     IF s = p THEN r
     ELSE IF wrote /\ InFlight(req[s]) THEN [req[s] EXCEPT !.alone = FALSE]
     ELSE req[s]]

\* The JSON of a book
BookView(bs, id) ==
  [id |-> id, title |-> bs[id].title, author |-> bs[id].author,
   category |-> bs[id].category]

\* dto.FavoriteResponse
FavView(bs, fs, fid) ==
  [id |-> fid, user |-> fs[fid].user, book |-> BookView(bs, fs[fid].book)]

Inserting(op) == Cardinality({s \in Procs : InFlight(req[s]) /\ req[s].op = op})

Init ==
  /\ books = << >>
  /\ favorites = << >>
  /\ req = [p \in Procs |-> IdleReq]

(***************************************************************************)
(* Books.                                                                  *)
(***************************************************************************)
\* BookService.GetBookByID as the handlers use it: the row's id, 0 for an error
ServiceGetBookByID(bs, id) == IF id = 0 THEN 0 ELSE BookFindByID(bs, id)

\* GET /books/{id}
GetBookByID(p, id) ==
  /\ ~InFlight(req[p])
  /\ LET r == Begin("GetBookByID", 0, id, NoBody)
     IN Commit(p,
          IF ServiceGetBookByID(books, id) = 0
          THEN Respond(r, 404, "NotFound", 0, << >>)
          ELSE Respond(r, 200, "", id, <<BookView(books, id)>>), FALSE)
  /\ UNCHANGED <<books, favorites>>

\* GET /books
GetBooks(p, search, category) ==
  /\ ~InFlight(req[p])
  /\ LET r == [Begin("GetBooks", 0, 0, NoBody) EXCEPT !.q = search, !.cat = category]
         ids == FindAll(books, TrimSpace(search), TrimSpace(category))
     IN Commit(p,
          Respond(r, 200, "", 0, [k \in 1..Len(ids) |-> BookView(books, ids[k])]), FALSE)
  /\ UNCHANGED <<books, favorites>>

\* POST /books: binding, validation, BookService.CreateBook up to FindByTitle
CreateBook(p, body) ==
  /\ ~InFlight(req[p])
  /\ Len(books) + Inserting("CreateBook") < MaxBooks
  /\ LET r == Begin("CreateBook", 0, 0, body)
         book == NewBook(body)
     IN Commit(p,
          IF ~BindBookRequest(body)
          THEN Respond(r, 400, "ValidationError", 0, << >>)
          ELSE IF validateBookRequest(body) # ""
          THEN RespondField(r, validateBookRequest(body))
          ELSE IF ~validateBook(book)
          THEN Respond(r, 500, "ValidationError", 0, << >>)
          ELSE IF FindByTitle(books, book.title) # 0
          THEN Respond(r, 500, "DuplicateTitle", 0, << >>)
          ELSE [r EXCEPT !.pc = "cb_create"], FALSE)
  /\ UNCHANGED <<books, favorites>>

\* BookRepository.Create of POST /books
CreateBookInsert(p) ==
  /\ req[p].pc = "cb_create"
  /\ books' = BookCreate(books, NewBook(req[p].body))
  /\ Commit(p,
       Respond([req[p] EXCEPT !.newid = Len(books')], 201, "", Len(books'),
               <<BookView(books', Len(books'))>>), TRUE)
  /\ UNCHANGED favorites

\* PUT /books/{id}: validation and the handler's GetBookByID
UpdateBook(p, id, body) ==
  /\ ~InFlight(req[p])
  /\ LET r == Begin("UpdateBook", 0, id, body)
     IN Commit(p,
          IF ~BindBookRequest(body)
          THEN Respond(r, 400, "ValidationError", 0, << >>)
          ELSE IF validateBookRequest(body) # ""
          THEN RespondField(r, validateBookRequest(body))
          ELSE IF ServiceGetBookByID(books, id) = 0
          THEN Respond(r, 404, "NotFound", 0, << >>)
          ELSE [r EXCEPT !.pc = "ub_exists"], FALSE)
  /\ UNCHANGED <<books, favorites>>

\* BookService.UpdateBook: validateBook and Exists
UpdateBookExists(p) ==
  /\ req[p].pc = "ub_exists"
  /\ Commit(p,
       IF ~validateBook(NewBook(req[p].body))
       THEN Respond(req[p], 500, "ValidationError", 0, << >>)
       ELSE IF ~BookExists(books, req[p].id)
       THEN Respond(req[p], 500, "NotFound", 0, << >>)
       ELSE [req[p] EXCEPT !.pc = "ub_title"], FALSE)
  /\ UNCHANGED <<books, favorites>>

\* BookService.UpdateBook: FindByTitle
UpdateBookTitle(p) ==
  /\ req[p].pc = "ub_title"
  /\ LET found == FindByTitle(books, NewBook(req[p].body).title)
     IN Commit(p,
          IF found # 0 /\ found # req[p].id
          THEN Respond(req[p], 500, "DuplicateTitle", 0, << >>)
          ELSE [req[p] EXCEPT !.pc = "ub_update"], FALSE)
  /\ UNCHANGED <<books, favorites>>

\* BookRepository.Update of PUT /books/{id}; the response is the book sent
UpdateBookWrite(p) ==
  /\ req[p].pc = "ub_update"
  /\ books' = BookUpdate(books, req[p].id, NewBook(req[p].body))
  /\ LET book == NewBook(req[p].body)
     IN Commit(p,
          Respond(req[p], 200, "", req[p].id,
                  <<[id |-> req[p].id, title |-> book.title, author |-> book.author,
                     category |-> book.category]>>), TRUE)
  /\ UNCHANGED favorites

\* DELETE /books/{id}: the handler's GetBookByID
DeleteBook(p, id) ==
  /\ ~InFlight(req[p])
  /\ LET r == Begin("DeleteBook", 0, id, NoBody)
     IN Commit(p,
          IF ServiceGetBookByID(books, id) = 0
          THEN Respond(r, 404, "NotFound", 0, << >>)
          ELSE [r EXCEPT !.pc = "db_exists"], FALSE)
  /\ UNCHANGED <<books, favorites>>

\* BookService.DeleteBook: Exists
DeleteBookExists(p) ==
  /\ req[p].pc = "db_exists"
  /\ Commit(p,
       IF req[p].id = 0
       THEN Respond(req[p], 500, "InvalidID", 0, << >>)
       ELSE IF ~BookExists(books, req[p].id)
       THEN Respond(req[p], 500, "NotFound", 0, << >>)
       ELSE [req[p] EXCEPT !.pc = "db_delete"], FALSE)
  /\ UNCHANGED <<books, favorites>>

\* BookRepository.Delete of DELETE /books/{id}
DeleteBookWrite(p) ==
  /\ req[p].pc = "db_delete"
  /\ books' = BookDelete(books, req[p].id)
  /\ favorites' = FavoritesAfterBookDelete(favorites, req[p].id)
  /\ Commit(p, Respond(req[p], 200, "", req[p].id, << >>), TRUE)

(***************************************************************************)
(* Favorites.                                                              *)
(***************************************************************************)
\* POST /favorites: binding, validation, FavoriteService.AddFavorite up to
\* the first FindByID of the book
AddFavorite(p, user, book) ==
  /\ ~InFlight(req[p])
  /\ Len(favorites) + Inserting("AddFavorite") < MaxFavs
  /\ LET r == Begin("AddFavorite", user, book, NoBody)
     IN Commit(p,
          IF ~validateFavoriteRequest(book)
          THEN Respond(r, 400, "ValidationError", 0, << >>)
          ELSE IF BookFindByID(books, book) = 0
          THEN Respond(r, 404, "NotFound", 0, << >>)
          ELSE [r EXCEPT !.pc = "af_exists"], FALSE)
  /\ UNCHANGED <<books, favorites>>

\* FavoriteService.AddFavorite: Exists
AddFavoriteExists(p) ==
  /\ req[p].pc = "af_exists"
  /\ Commit(p,
       IF FavExists(favorites, req[p].user, req[p].id)
       THEN Respond(req[p], 409, "AlreadyFavorited", 0, << >>)
       ELSE [req[p] EXCEPT !.pc = "af_create"], FALSE)
  /\ UNCHANGED <<books, favorites>>

\* FavoriteService.AddFavorite: Create; a rejected INSERT is an error that the
\* handler answers with 500
AddFavoriteInsert(p) ==
  /\ req[p].pc = "af_create"
  /\ IF FavCreateAccepted(books, favorites, req[p].user, req[p].id)
     THEN /\ favorites' = FavCreate(favorites, req[p].user, req[p].id)
          /\ Commit(p, [req[p] EXCEPT !.pc = "af_book",
                                      !.newid = Len(favorites')], TRUE)
     ELSE /\ favorites' = favorites
          /\ Commit(p, Respond(req[p], 500, "InternalError", 0, << >>), FALSE)
  /\ UNCHANGED books

\* FavoriteService.AddFavorite: the second FindByID of the book
AddFavoriteBook(p) ==
  /\ req[p].pc = "af_book"
  /\ Commit(p,
       IF BookFindByID(books, req[p].id) = 0
       THEN Respond(req[p], 500, "NotFound", 0, << >>)
       ELSE Respond(req[p], 201, "", req[p].newid,
                    <<FavView(books, favorites, req[p].newid)>>), FALSE)
  /\ UNCHANGED <<books, favorites>>

\* DELETE /favorites/{id}: FavoriteRepository.Delete returns no error when
\* no row matches, so the handler always answers 200
RemoveFavorite(p, user, fid) ==
  /\ ~InFlight(req[p])
  /\ favorites' = FavDelete(favorites, user, fid)
  /\ Commit(p, Respond(Begin("RemoveFavorite", user, fid, NoBody),
                       200, "", fid, << >>), TRUE)
  /\ UNCHANGED books

\* GET /favorites/{id}: FavoriteRepository.FindByID
GetFavoriteByID(p, user, fid) ==
  /\ ~InFlight(req[p])
  /\ LET r == Begin("GetFavoriteByID", user, fid, NoBody)
     IN Commit(p,
          IF FavFindByID(favorites, user, fid) = 0
          THEN Respond(r, 404, "NotFound", 0, << >>)
          ELSE [r EXCEPT !.pc = "gf_book"], FALSE)
  /\ UNCHANGED <<books, favorites>>

\* FavoriteService.GetFavoriteByID: FindByID of the book
GetFavoriteByIDBook(p) ==
  /\ req[p].pc = "gf_book"
  /\ Commit(p,
       IF BookFindByID(books, favorites[req[p].id].book) = 0
       THEN Respond(req[p], 404, "NotFound", 0, << >>)
       ELSE Respond(req[p], 200, "", req[p].id,
                    <<FavView(books, favorites, req[p].id)>>), FALSE)
  /\ UNCHANGED <<books, favorites>>

\* GET /favorites: FavoriteRepository.FindAll; its error is answered with 500
GetFavorites(p, user) ==
  /\ ~InFlight(req[p])
  /\ \E preload \in PreloadBook :
       LET r == Begin("GetFavorites", user, 0, NoBody)
           favs == FavFindAll(favorites, user)
       IN Commit(p,
            IF preload = "unsupported"
            THEN Respond(r, 500, "InternalError", 0, << >>)
            ELSE IF favs = << >>
            THEN Respond(r, 200, "", 0, << >>)
            ELSE [r EXCEPT !.pc = "lf_loop", !.todo = favs], FALSE)
  /\ UNCHANGED <<books, favorites>>

\* One round of the loop of FavoriteService.GetFavorites: FindByID of the
\* book of the next favorite; an error skips the favorite
GetFavoritesBook(p) ==
  /\ req[p].pc = "lf_loop"
  /\ LET f == Head(req[p].todo)
         rest == Tail(req[p].todo)
         out == IF BookFindByID(books, favorites[f].book) = 0
                THEN req[p].res.data
                ELSE Append(req[p].res.data, FavView(books, favorites, f))
     IN Commit(p,
          IF rest = << >>
          THEN Respond([req[p] EXCEPT !.todo = rest], 200, "", 0, out)
          ELSE [req[p] EXCEPT !.todo = rest, !.res.data = out], FALSE)
  /\ UNCHANGED <<books, favorites>>

(***************************************************************************)
(* Advanced search and suggestions.                                        *)
(***************************************************************************)
IsDigit(c) == c \in {"0", "1", "2", "3", "4", "5", "6", "7", "8", "9"}

DigitValue(c) ==
  CASE c = "0" -> 0 [] c = "1" -> 1 [] c = "2" -> 2 [] c = "3" -> 3 [] c = "4" -> 4
    [] c = "5" -> 5 [] c = "6" -> 6 [] c = "7" -> 7 [] c = "8" -> 8 [] OTHER -> 9

RECURSIVE DigitsValue(_)
DigitsValue(s) ==
  IF s = << >> THEN 0
  ELSE 10 * DigitsValue(SubSeq(s, 1, Len(s) - 1)) + DigitValue(s[Len(s)])

\* strconv.Atoi: an optional sign and at least one digit, nothing else
Atoi(s) ==
  LET signed == s # << >> /\ Head(s) \in {"-", "+"}
      digits == IF signed THEN Tail(s) ELSE s
      ok == digits # << >> /\ \A i \in 1..Len(digits) : IsDigit(digits[i])
  IN [ok |-> ok,
      val |-> IF ~ok THEN 0
              ELSE IF signed /\ Head(s) = "-" THEN 0 - DigitsValue(digits)
              ELSE DigitsValue(digits)]

\* BookHandler.AdvancedSearch: the parameters built from the query string; a
\* limit or offset that is absent or no number is left at zero
ParseSearchParams(raw) ==
  [query |-> TrimSpace(raw.query),
   category |-> TrimSpace(raw.category),
   author |-> TrimSpace(raw.author),
   searchType |-> raw.searchType,
   sortBy |-> raw.sortBy,
   sortOrder |-> raw.sortOrder,
   limit |-> IF raw.limit # << >> /\ Atoi(raw.limit).ok THEN Atoi(raw.limit).val ELSE 0,
   offset |-> IF raw.offset # << >> /\ Atoi(raw.offset).ok THEN Atoi(raw.offset).val ELSE 0]

DefaultLimit == 20
MaxLimit == 100

DefaultSearchParamsNoClamp(params) ==
  [params EXCEPT
     !.searchType = IF @ = "" THEN "contains" ELSE @,
     !.sortBy = IF @ = "" THEN "relevance" ELSE @,
     !.sortOrder = IF @ = "" THEN "ASC" ELSE @]

\* BookService.AdvancedSearch: the defaults
DefaultSearchParams(params) ==
  [params EXCEPT
     !.searchType = IF @ = "" THEN "contains" ELSE @,
     !.sortBy = IF @ = "" THEN "relevance" ELSE @,
     !.sortOrder = IF @ = "" THEN "ASC" ELSE @,
     !.limit = IF @ <= 0 \/ @ > MaxLimit THEN DefaultLimit ELSE @,
     !.offset = IF @ < 0 THEN 0 ELSE @]

validSearchTypes == {"exact", "starts_with", "contains", "fuzzy"}
validSortFields == {"title", "author", "category", "created_at", "relevance"}

ValidateSearchParamsSortFirst(params) ==
  IF params.sortBy \notin validSortFields THEN "InvalidSortField"
  ELSE IF params.searchType \notin validSearchTypes THEN "InvalidSearchType"
  ELSE IF params.sortOrder \notin {"ASC", "DESC"} THEN "InvalidSortOrder"
  ELSE ""

\* BookService.AdvancedSearch: the checks, in their order; "" for no error
ValidateSearchParams(params) ==
  IF params.searchType \notin validSearchTypes THEN "InvalidSearchType"
  ELSE IF params.sortBy \notin validSortFields THEN "InvalidSortField"
  ELSE IF params.sortOrder \notin {"ASC", "DESC"} THEN "InvalidSortOrder"
  ELSE ""

\* The end of the first word of a string that starts with no space
WordEnd(t) ==
  IF \E i \in 1..Len(t) : IsSpace(t[i])
  THEN Min({i \in 1..Len(t) : IsSpace(t[i])}) - 1
  ELSE Len(t)

RECURSIVE Fields(_)
\* strings.Fields: the words of the string
Fields(s) ==
  LET t == TrimLeft(s)
  IN IF t = << >> THEN << >>
     ELSE <<SubSeq(t, 1, WordEnd(t))>> \o Fields(SubSeq(t, WordEnd(t) + 1, Len(t)))

\* strings.Contains
StrContains(s, sub) ==
  \E i \in 0..(Len(s) - Len(sub)) : SubSeq(s, i + 1, i + Len(sub)) = sub

RECURSIVE ReplaceAll(_, _, _)
\* strings.Replace(s, key, sub, -1)
ReplaceAll(s, key, sub) ==
  IF Len(s) < Len(key) THEN s
  ELSE IF SubSeq(s, 1, Len(key)) = key
  THEN sub \o ReplaceAll(SubSeq(s, Len(key) + 1, Len(s)), key, sub)
  ELSE <<Head(s)>> \o ReplaceAll(Tail(s), key, sub)

\* The substitutions of BookRepository.generateVariations, in the order of
\* the map literal
substitutions ==
  <<[key |-> <<"h", "a", "r">>,
     subs |-> <<<<"h", "a", "r", "r">>, <<"h", "a", "r", "r", "y">>>>],
    [key |-> <<"p", "o", "t">>,
     subs |-> <<<<"p", "o", "t", "t">>, <<"p", "o", "t", "t", "e", "r">>>>],
    [key |-> <<"l", "o", "r", "d">>, subs |-> <<<<"l", "o", "r", "d", "s">>>>],
    [key |-> <<"r", "i", "n", "g">>,
     subs |-> <<<<"r", "i", "n", "g", "s">>, <<"r", "i", "n", "g">>>>],
    [key |-> <<"g", "a", "m", "e">>, subs |-> <<<<"g", "a", "m", "i", "n", "g">>>>],
    [key |-> <<"t", "h", "r", "o", "n", "e">>,
     subs |-> <<<<"t", "h", "r", "o", "n", "e", "s">>>>]>>

\* The entries of the table whose key occurs in the term, in every order in
\* which the range over the map may visit them
KeyOrders(term) ==
  LET hit == {k \in 1..Len(substitutions) :
                StrContains(ToLower(term), substitutions[k].key)}
  IN {o \in [1..Cardinality(hit) -> hit] :
        \A i, j \in 1..Cardinality(hit) : i # j => o[i] # o[j]}

RECURSIVE Flatten(_)
\* append of every element of every list
Flatten(lists) ==
  IF lists = << >> THEN << >> ELSE Head(lists) \o Flatten(Tail(lists))

\* BookRepository.generateVariations, the map visited in the given order
generateVariations(term, order) ==
  Flatten([i \in 1..Len(order) |->
            [j \in 1..Len(substitutions[order[i]].subs) |->
               ReplaceAll(ToLower(term), substitutions[order[i]].key,
                          substitutions[order[i]].subs[j])]])

\* len(word) > 2
LongWord(word) == StrLen(word) > 2

\* Patterns without the term itself
generateFuzzyPatternsNoTerm(term, order) ==
  SelectSeq(Fields(term), LongWord) \o generateVariations(term, order)

\* BookRepository.generateFuzzyPatterns: what stands between the % of the
\* LIKE patterns
generateFuzzyPatterns(term, order) ==
  <<term>> \o SelectSeq(Fields(term), LongWord) \o generateVariations(term, order)

\* The WHERE clause that BookRepository.AdvancedSearch builds for the query
SearchTypeMatch(b, term, searchType) ==
  CASE searchType = "exact" -> CollEq(b.title, term) \/ CollEq(b.author, term)
    [] searchType = "starts_with" -> HasPrefix(b.title, term) \/ HasPrefix(b.author, term)
    [] searchType = "fuzzy" ->
         LET fuzzyPatterns ==
               generateFuzzyPatterns(term, CHOOSE order \in KeyOrders(term) : TRUE)
         IN \E k \in 1..Len(fuzzyPatterns) :
              Contains(b.title, fuzzyPatterns[k]) \/ Contains(b.author, fuzzyPatterns[k])
    [] OTHER -> Contains(b.title, term) \/ Contains(b.author, term)
                  \/ Contains(b.category, term)

\* The WHERE clauses of BookRepository.AdvancedSearch
AdvancedSearchWhere(b, params) ==
  /\ ~b.deleted
  /\ params.query # << >> =>
       SearchTypeMatch(b, TrimSpace(params.query), params.searchType)
  /\ params.category # << >> => CollEq(b.category, TrimSpace(params.category))
  /\ params.author # << >> => Contains(b.author, TrimSpace(params.author))

\* ORDER BY column ASC or DESC (created_at grows with the id; rows equal in
\* the column: by id)
ColumnBefore(bs, sortBy, sortOrder, i, j) ==
  IF sortBy = "created_at" THEN (IF sortOrder = "ASC" THEN i < j ELSE j < i)
  ELSE IF CollLess(bs[i][sortBy], bs[j][sortBy]) THEN sortOrder = "ASC"
  ELSE IF CollLess(bs[j][sortBy], bs[i][sortBy]) THEN sortOrder = "DESC"
  ELSE i < j

RECURSIVE SortByColumn(_, _, _, _)
SortByColumn(bs, sortBy, sortOrder, S) ==
  IF S = {} THEN << >>
  ELSE LET first == CHOOSE i \in S :
                      \A j \in S \ {i} : ColumnBefore(bs, sortBy, sortOrder, i, j)
       IN <<first>> \o SortByColumn(bs, sortBy, sortOrder, S \ {first})

\* LIMIT and OFFSET
Page(ids, limit, offset) ==
  LET from == IF offset > 0 THEN offset + 1 ELSE 1
      to == IF limit > 0 /\ from + limit - 1 < Len(ids) THEN from + limit - 1
            ELSE Len(ids)
  IN SubSeq(ids, from, to)

\* BookRepository.AdvancedSearch: the ids of the rows returned, in order.
\* Sorting by relevance with a query sets the raw SELECT as the statement;
\* gorm then sends the raw statement as it is, without the WHERE clauses
\* built before it and without the LIMIT and OFFSET added after it.
AdvancedSearchRows(bs, params) ==
  IF params.sortBy = "relevance" /\ params.query # << >>
  THEN SortByRank(bs, TrimSpace(params.query), {i \in 1..Len(bs) : ~bs[i].deleted})
  ELSE LET S == {i \in 1..Len(bs) : AdvancedSearchWhere(bs[i], params)}
           sortBy == IF params.sortBy \in {"title", "author", "category", "created_at"}
                     THEN params.sortBy ELSE "title"
           sortOrder == IF params.sortBy \in {"title", "author", "category", "created_at"}
                        THEN params.sortOrder ELSE "ASC"
       IN Page(SortByColumn(bs, sortBy, sortOrder, S), params.limit, params.offset)

\* GET /books/search
AdvancedSearch(p, raw) ==
  /\ ~InFlight(req[p])
  /\ LET params == DefaultSearchParams(ParseSearchParams(raw))
         r == [Begin("AdvancedSearch", 0, 0, NoBody) EXCEPT !.raw = raw]
         ids == AdvancedSearchRows(books, params)
         term == TrimSpace(params.query)
         fuzzy == params.searchType = "fuzzy" /\ params.query # << >>
     IN \E order \in (IF fuzzy THEN KeyOrders(term) ELSE {<< >>}) :
          Commit(p,
            IF ValidateSearchParams(params) # ""
            THEN Respond(r, 400, ValidateSearchParams(params), 0, << >>)
            ELSE Respond([r EXCEPT !.params = params, !.issued = TRUE,
                                   !.patterns = IF fuzzy
                                                THEN generateFuzzyPatterns(term, order)
                                                ELSE << >>],
                         200, "", 0,
                         [k \in 1..Len(ids) |-> BookView(books, ids[k])]), FALSE)
  /\ UNCHANGED <<books, favorites>>

RECURSIVE Distinct(_)
\* The rows of a UNION: a row equal under the collation to an earlier one is
\* left out
Distinct(rows) ==
  IF rows = << >> THEN << >>
  ELSE LET front == Distinct(SubSeq(rows, 1, Len(rows) - 1))
           last == rows[Len(rows)]
       IN IF \E k \in 1..Len(front) : CollEq(front[k], last)
          THEN front ELSE Append(front, last)

\* BookRepository.GetSearchSuggestions: the titles, then the authors, of the
\* rows whose title or author matches, in primary-key order
SuggestionRows(bs, query, limit) ==
  IF query = << >> THEN << >>
  ELSE LET term == TrimSpace(query)
           ids == SortByID({i \in 1..Len(bs) :
                    /\ ~bs[i].deleted
                    /\ Contains(bs[i].title, term) \/ Contains(bs[i].author, term)})
           titles == [k \in 1..Len(ids) |-> bs[ids[k]].title]
           authors == [k \in 1..Len(ids) |-> bs[ids[k]].author]
       IN Page(Distinct(titles \o authors), limit, 0)

DefaultSuggestions == 10
MaxSuggestions == 20

\* BookService.GetSearchSuggestions: the limit sent to the repository
SuggestionLimit(limit) ==
  IF limit <= 0 \/ limit > MaxSuggestions THEN DefaultSuggestions ELSE limit

\* GET /books/suggestions
GetSearchSuggestions(p, query, limit) ==
  /\ ~InFlight(req[p])
  /\ LET r == [Begin("GetSearchSuggestions", 0, 0, NoBody) EXCEPT
                 !.raw = [NoRaw EXCEPT !.query = query, !.limit = limit]]
         parsed == IF limit # << >> /\ Atoi(limit).ok THEN Atoi(limit).val
                   ELSE DefaultSuggestions
         params == [NoParams EXCEPT !.query = TrimSpace(query),
                                    !.limit = SuggestionLimit(parsed)]
     IN Commit(p,
          IF TrimSpace(query) = << >>
          THEN Respond(r, 400, "ValidationError", 0, << >>)
          ELSE Respond([r EXCEPT !.params = params, !.issued = TRUE], 200, "", 0,
                       SuggestionRows(books, params.query, params.limit)), FALSE)
  /\ UNCHANGED <<books, favorites>>

(***************************************************************************)
(* Specifications.                                                         *)
(***************************************************************************)
\* c.JSON: the response of an answered request is written and its slot is
\* free again.  It touches nothing that another request reads, so it is
\* taken before any other step (Pending).
Deliver(p) ==
  /\ req[p].pc = "done"
  /\ req' = [req EXCEPT ![p] = IdleReq]
  /\ UNCHANGED <<books, favorites>>

Pending == \E p \in Procs : req[p].pc = "done"

\* The steps of the requests on books
BookSteps(p) ==
  \/ CreateBookInsert(p)
  \/ UpdateBookExists(p)
  \/ UpdateBookTitle(p)
  \/ UpdateBookWrite(p)
  \/ DeleteBookExists(p)
  \/ DeleteBookWrite(p)

\* The steps of the requests on favorites
FavoriteSteps(p) ==
  \/ AddFavoriteExists(p)
  \/ AddFavoriteInsert(p)
  \/ AddFavoriteBook(p)
  \/ GetFavoriteByIDBook(p)
  \/ GetFavoritesBook(p)

\* The book requests
NextBooks ==
  \/ \E p \in Procs : Deliver(p)
  \/ /\ ~Pending
     /\ \E p \in Procs :
          \/ \E id \in BookIDs : GetBookByID(p, id)
          \/ \E s \in SearchTerms, c \in CategoryFilters : GetBooks(p, s, c)
          \/ \E b \in BookRequests : CreateBook(p, b)
          \/ \E id \in BookIDs, b \in BookRequests : UpdateBook(p, id, b)
          \/ \E id \in BookIDs : DeleteBook(p, id)
          \/ BookSteps(p)

\* The payloads of the books that the favorites refer to
FavoriteBookRequests == {b \in BookRequests : b.title \in {<<"a">>, <<"b">>}}

\* The favorite requests, with the book requests that they depend on
NextFavorites ==
  \/ \E p \in Procs : Deliver(p)
  \/ /\ ~Pending
     /\ \E p \in Procs :
          \/ \E b \in FavoriteBookRequests : CreateBook(p, b)
          \/ \E id \in BookIDs : DeleteBook(p, id)
          \/ \E u \in Users, b \in BookIDs : AddFavorite(p, u, b)
          \/ \E u \in Users, f \in FavIDs : RemoveFavorite(p, u, f)
          \/ \E u \in Users, f \in FavIDs : GetFavoriteByID(p, u, f)
          \/ \E u \in Users : GetFavorites(p, u)
          \/ CreateBookInsert(p)
          \/ DeleteBookExists(p)
          \/ DeleteBookWrite(p)
          \/ FavoriteSteps(p)

\* The tables are a catalogue, e.g. the one that database-schema.sql inserts
InitSearch ==
  /\ books \in Catalogues
  /\ favorites = << >>
  /\ req = [p \in Procs |-> IdleReq]

\* The search requests
NextSearch ==
  \/ \E p \in Procs : Deliver(p)
  \/ /\ ~Pending
     /\ \E p \in Procs :
          \/ \E raw \in SearchRequests : AdvancedSearch(p, raw)
          \/ \E q \in SuggestionQueries, l \in SuggestionLimits :
               GetSearchSuggestions(p, q, l)

SpecSearch == InitSearch /\ [][NextSearch]_vars

\* Query terms for the fuzzy pattern generator: words of two and of three
\* characters, several words, terms that hold one key or two keys of the
\* substitution table, a word of two characters and three bytes
FuzzyTerms ==
  {<<"a", "b">>,
   <<"a", "b", "c">>,
   <<"a", "b", " ", "c", "d", "e">>,
   <<"h", "a", "r">>,
   <<"r", "i", "n", "g">>,
   <<"h", "a", "r", " ", "p", "o", "t">>,
   <<"é", "a">>}

FuzzyRows ==
  {[title |-> t.title, author |-> t.author, category |-> <<"c">>, deleted |-> d] :
     t \in {[title |-> <<"h", "a", "r", "r", "y">>, author |-> <<"x">>],
            [title |-> <<"a", "b", "c">>, author |-> <<"y">>],
            [title |-> <<"p", "o", "t", "t", "e", "r">>, author |-> <<"h", "a", "r">>]},
     d \in BOOLEAN}

FuzzyCatalogues ==
  {bs \in UNION {[1..n -> FuzzyRows] : n \in 0..MaxFuzzyCatalogue} :
     \A i, j \in 1..Len(bs) : i # j => bs[i].title # bs[j].title}

\* Query strings of GET /books/search for the fuzzy and the contains search
FuzzyRequests ==
  {[BaseSearch EXCEPT !.query = t, !.searchType = st, !.sortBy = f] :
     t \in FuzzyTerms, st \in {"fuzzy", "contains"}, f \in {"", "title"}}

InitFuzzy ==
  /\ books \in FuzzyCatalogues
  /\ favorites = << >>
  /\ req = [p \in Procs |-> IdleReq]

NextFuzzy ==
  \/ \E p \in Procs : Deliver(p)
  \/ /\ ~Pending
     /\ \E p \in Procs : \E raw \in FuzzyRequests : AdvancedSearch(p, raw)

SpecFuzzy == InitFuzzy /\ [][NextFuzzy]_vars

\* A string of n times the character c
Repeat(c, n) == [i \in 1..n |-> c]

\* Payload fields at the limits of the validation: empty, whitespace, 255 and
\* 256 one-byte characters, 128 two-byte characters
ValidationTitles ==
  {<<"a">>, << >>, <<" ">>, Repeat("a", MaxFieldLen), Repeat("a", MaxFieldLen + 1),
   Repeat("é", (MaxFieldLen + 1) \div 2)}

ValidationRequests ==
  {[title |-> t, author |-> a, category |-> c] :
     t \in ValidationTitles,
     a \in {<<"x">>, <<" ">>, Repeat("x", MaxFieldLen + 1)},
     c \in {<<"c">>, << >>, <<" ">>, Repeat("c", MaxFieldLen + 1)}}

\* The requests that are validated
NextValidation ==
  \/ \E p \in Procs : Deliver(p)
  \/ /\ ~Pending
     /\ \E p \in Procs :
          \/ \E b \in ValidationRequests : CreateBook(p, b)
          \/ \E u \in Users, b \in BookIDs : AddFavorite(p, u, b)
          \/ CreateBookInsert(p)
          \/ AddFavoriteExists(p)
          \/ AddFavoriteInsert(p)
          \/ AddFavoriteBook(p)

SpecValidation == Init /\ [][NextValidation]_vars

\* The payloads, searches and identifiers of the requests around a deleted
\* book
DeletedBookRequests ==
  {b \in BookRequests :
     /\ b.title \in {<<"a">>, <<"b">>}
     /\ b.author = <<"x">>
     /\ b.category = <<"c">>}

DeletedSearchRequests == {[BaseSearch EXCEPT !.sortBy = f] : f \in {"", "title"}}

\* Every operation of the API, one user
NextDeleted ==
  \/ \E p \in Procs : Deliver(p)
  \/ /\ ~Pending
     /\ \E p \in Procs :
          \/ \E b \in DeletedBookRequests : CreateBook(p, b)
          \/ \E id \in 1..MaxBooks, b \in DeletedBookRequests : UpdateBook(p, id, b)
          \/ \E id \in 1..MaxBooks : DeleteBook(p, id)
          \/ \E id \in 1..MaxBooks : GetBookByID(p, id)
          \/ GetBooks(p, <<"a">>, << >>)
          \/ \E raw \in DeletedSearchRequests : AdvancedSearch(p, raw)
          \/ GetSearchSuggestions(p, <<"a">>, << >>)
          \/ \E b \in 1..MaxBooks : AddFavorite(p, 1, b)
          \/ \E f \in 1..MaxFavs : GetFavoriteByID(p, 1, f)
          \/ GetFavorites(p, 1)
          \/ BookSteps(p)
          \/ FavoriteSteps(p)

SpecDeleted == Init /\ [][NextDeleted]_vars

SpecBooks == Init /\ [][NextBooks]_vars

SpecFavorites == Init /\ [][NextFavorites]_vars

Next == NextBooks \/ NextFavorites

Spec == Init /\ [][Next]_vars


(***************************************************************************)
(* Properties.                                                             *)
(***************************************************************************)
\* The step answers the request of slot p
Answered(p) == req[p].pc # "done" /\ req'[p].pc = "done"

AnsweredOp(p, op) == Answered(p) /\ req'[p].op = op

\* An answered request of operation op waits in slot p for its response to
\* be written
Done(p, op) == req[p].pc = "done" /\ req[p].op = op

\* t is raw without its surrounding whitespace
IsTrimOf(t, raw) ==
  /\ t = << >> \/ (~IsSpace(t[1]) /\ ~IsSpace(t[Len(t)]))
  /\ \E i \in 0..Len(raw), j \in 0..Len(raw) :
       /\ i + Len(t) + j = Len(raw)
       /\ SubSeq(raw, i + 1, i + Len(t)) = t
       /\ \A k \in (1..i) \cup ((i + Len(t) + 1)..Len(raw)) : IsSpace(raw[k])

\* A payload that passes binding and validation
ValidBody(body) ==
  \A f \in {body.title, body.author, body.category} :
    /\ \E k \in 1..Len(f) : ~IsSpace(f[k])
    /\ Len(f) <= MaxFieldLen

\* The title without surrounding whitespace and in lower case
NormTitle(s) ==
  LET t == CHOOSE t \in {SubSeq(s, i, j) : i \in 1..(Len(s) + 1), j \in 0..Len(s)} :
             IsTrimOf(t, s)
  IN [k \in 1..Len(t) |-> IF t[k] = "A" THEN "a" ELSE IF t[k] = "B" THEN "b" ELSE t[k]]

\* C1: a createBook that succeeds has stored the trimmed title, author and
\* category of its payload under the identifier it returns, and getBookByID
\* on that identifier finds that row and returns its fields.
C1_CreateThenGet ==
  [][\A p \in Procs :
       /\ AnsweredOp(p, "CreateBook") /\ req'[p].res.err = "" =>
            LET id == req'[p].res.id
                body == req'[p].body
            IN /\ ValidBody(body)
               /\ ServiceGetBookByID(books', id) = id
               /\ IsTrimOf(BookView(books', id).title, body.title)
               /\ IsTrimOf(BookView(books', id).author, body.author)
               /\ IsTrimOf(BookView(books', id).category, body.category)
       /\ AnsweredOp(p, "GetBookByID") /\ BookLive(books, req'[p].id) =>
            /\ req'[p].res.err = ""
            /\ req'[p].res.data = <<[id |-> req'[p].id,
                                     title |-> books[req'[p].id].title,
                                     author |-> books[req'[p].id].author,
                                     category |-> books[req'[p].id].category]>>
    ]_vars

\* C1 witness: a createBook of a payload with surrounding whitespace succeeded
C1_Witness ==
  \E p \in Procs :
    /\ Done(p, "CreateBook") /\ req[p].res.err = ""
    /\ req[p].body.title # books[req[p].res.id].title
    /\ IsTrimOf(books[req[p].res.id].title, req[p].body.title)

\* C2: a createBook with a valid payload whose title, trimmed and with case
\* ignored, is the title of a non-deleted book fails with DuplicateTitle and
\* leaves the books as they are (no statement of another request in between).
C2_DuplicateTitle ==
  [][\A p \in Procs :
       ( /\ AnsweredOp(p, "CreateBook")
         /\ req'[p].alone
         /\ ValidBody(req'[p].body)
         /\ \E i \in 1..Len(books) :
              /\ ~books[i].deleted
              /\ NormTitle(books[i].title) = NormTitle(req'[p].body.title) )
       => /\ req'[p].res.err = "DuplicateTitle"
          /\ books' = books
    ]_vars

\* C2 witness: a createBook failed with DuplicateTitle against a book whose
\* title differs from the payload's in case or surrounding whitespace
C2_Witness ==
  \E p \in Procs :
    /\ Done(p, "CreateBook") /\ req[p].res.err = "DuplicateTitle"
    /\ \A i \in 1..Len(books) : books[i].title # req[p].body.title
    /\ \E i \in 1..Len(books) :
         ~books[i].deleted /\ NormTitle(books[i].title) = NormTitle(req[p].body.title)

\* C3: no two non-deleted books have the same title.
C3_UniqueTitles ==
  \A i, j \in 1..Len(books) :
    (i # j /\ ~books[i].deleted /\ ~books[j].deleted) => books[i].title # books[j].title

\* C4: deleteBook of a non-deleted book soft-deletes it (and nothing else); a
\* deleted book stays deleted, getBookByID on it fails with NotFound and no
\* listBooks result holds it; deleteBook of an id that no non-deleted book
\* has fails with NotFound and changes nothing.
C4_DeleteBook ==
  [][\A p \in Procs :
       /\ (AnsweredOp(p, "DeleteBook") /\ req'[p].alone /\ BookLive(books, req'[p].id)) =>
            /\ req'[p].res.err = ""
            /\ books' = [books EXCEPT ![req'[p].id].deleted = TRUE]
       /\ (AnsweredOp(p, "DeleteBook") /\ req'[p].alone /\ ~BookLive(books, req'[p].id)) =>
            /\ req'[p].res.err = "NotFound"
            /\ books' = books /\ favorites' = favorites
       /\ (AnsweredOp(p, "GetBookByID") /\ ~BookLive(books, req'[p].id)) =>
            req'[p].res.err = "NotFound"
       /\ AnsweredOp(p, "GetBooks") =>
            \A k \in 1..Len(req'[p].res.data) : BookLive(books, req'[p].res.data[k].id)
       /\ \A i \in 1..Len(books) :
            books[i].deleted => (i <= Len(books') /\ books'[i].deleted)
    ]_vars

\* C4 witness: a second deleteBook of a deleted book failed with NotFound
C4_Witness ==
  \E p \in Procs :
    /\ Done(p, "DeleteBook") /\ req[p].res.err = "NotFound"
    /\ req[p].id \in 1..Len(books) /\ books[req[p].id].deleted


\* The non-deleted favorites of user for book
FavoritesOf(fs, user, book) ==
  {f \in 1..Len(fs) : ~fs[f].deleted /\ fs[f].user = user /\ fs[f].book = book}

\* C5: an addFavorite(u, b) while a favorite of u for the non-deleted book b
\* exists fails with AlreadyFavorited; an addFavorite(u, b) while b is no
\* non-deleted book fails with NotFound; in both cases no favorite is created
\* (no statement of another request in between).
C5_AddFavoriteFails ==
  [][\A p \in Procs :
       (AnsweredOp(p, "AddFavorite") /\ req'[p].alone /\ req'[p].id # 0) =>
         /\ ( /\ BookLive(books, req'[p].id)
              /\ FavoritesOf(favorites, req'[p].user, req'[p].id) \ {req'[p].newid} # {} )
            => /\ req'[p].res.err = "AlreadyFavorited"
               /\ req'[p].newid = 0
               /\ favorites' = favorites
         /\ ~BookLive(books, req'[p].id)
            => /\ req'[p].res.err = "NotFound"
               /\ req'[p].newid = 0
               /\ favorites' = favorites
    ]_vars

\* C5 witness: a second addFavorite(u, b) failed with AlreadyFavorited
C5_Witness ==
  \E p \in Procs :
    /\ Done(p, "AddFavorite") /\ req[p].res.err = "AlreadyFavorited"
    /\ FavoritesOf(favorites, req[p].user, req[p].id) # {}

\* C6: there is at most one favorite per user per book.
C6_OneFavoritePerUserBook ==
  \A u \in Users, b \in 1..Len(books) :
    Cardinality(FavoritesOf(favorites, u, b)) <= 1

\* C6 witness: of two interleaved addFavorite(u, b), both past the existence
\* check, one created the favorite and the INSERT of the other was rejected
C6_Witness ==
  \E p \in Procs :
    /\ Done(p, "AddFavorite") /\ req[p].res.err = "InternalError" /\ ~req[p].alone
    /\ Cardinality(FavoritesOf(favorites, req[p].user, req[p].id)) = 1

\* C7: removeFavorite(userID, favoriteID) fails with NotFound when no
\* favorite with that identifier belongs to userID.
C7_RemoveFavoriteNotFound ==
  [][\A p \in Procs :
       ( /\ AnsweredOp(p, "RemoveFavorite")
         /\ ~(FavLive(favorites, req'[p].id) /\ favorites[req'[p].id].user = req'[p].user) )
       => req'[p].res.err = "NotFound"
    ]_vars

\* C8: getFavoriteByID(userID, favoriteID) fails with NotFound if no favorite
\* with that identifier belongs to userID, and otherwise returns the favorite
\* joined with the current fields of its book.
C8_GetFavoriteByID ==
  [][\A p \in Procs :
       (AnsweredOp(p, "GetFavoriteByID") /\ req'[p].alone) =>
         IF FavLive(favorites, req'[p].id) /\ favorites[req'[p].id].user = req'[p].user
         THEN /\ req'[p].res.err = ""
              /\ Len(req'[p].res.data) = 1
              /\ req'[p].res.data[1].id = req'[p].id
              /\ req'[p].res.data[1].book.id = favorites[req'[p].id].book
              /\ req'[p].res.data[1].book.title = books[favorites[req'[p].id].book].title
         ELSE req'[p].res.err = "NotFound"
    ]_vars

\* C9: listFavorites(userID) never fails; it returns, once each, exactly the
\* favorites of the user whose book is non-deleted, each with the current
\* fields of that book (no writing statement of another request in between).
C9_ListFavorites ==
  [][\A p \in Procs :
       AnsweredOp(p, "GetFavorites") =>
         LET data == req'[p].res.data
             shown == {f \in 1..Len(favorites) :
                         /\ ~favorites[f].deleted
                         /\ favorites[f].user = req'[p].user
                         /\ BookLive(books, favorites[f].book)}
         IN /\ req'[p].res.err = "" /\ req'[p].res.status = 200
            /\ req'[p].alone =>
                 /\ {data[k].id : k \in 1..Len(data)} = shown
                 /\ Len(data) = Cardinality(shown)
                 /\ \A k \in 1..Len(data) :
                      LET b == favorites[data[k].id].book
                      IN /\ data[k].user = req'[p].user
                         /\ data[k].book = [id |-> b, title |-> books[b].title,
                                            author |-> books[b].author,
                                            category |-> books[b].category]
    ]_vars

\* C10: after a deleteBook(b) that succeeded the store holds no favorite
\* that references b.
C10_DeleteBookCascades ==
  \A p \in Procs :
    (Done(p, "DeleteBook") /\ req[p].res.err = "") =>
      \A f \in 1..Len(favorites) :
        ~(~favorites[f].deleted /\ favorites[f].book = req[p].id)

\* The books of the answer of the request of slot p, in the next state
Returned(p) == {req'[p].res.data[k] : k \in 1..Len(req'[p].res.data)}

\* C11: an advanced search with search_type=exact and a non-empty query, all
\* other parameters absent, returns only non-deleted books whose title or
\* whose author equals the query.
C11_ExactSearch ==
  [][\A p \in Procs :
       ( /\ AnsweredOp(p, "AdvancedSearch")
         /\ req'[p].raw.searchType = "exact"
         /\ TrimSpace(req'[p].raw.query) # << >>
         /\ req'[p].raw = [NoRaw EXCEPT !.query = req'[p].raw.query,
                                        !.searchType = "exact"] )
       => /\ req'[p].res.err = ""
          /\ \A b \in Returned(p) :
               /\ ~books[b.id].deleted
               /\ \/ CollEq(b.title, TrimSpace(req'[p].raw.query))
                  \/ CollEq(b.author, TrimSpace(req'[p].raw.query))
    ]_vars

\* The rank of a book for a query: 1 title equals it, 2 title starts with it,
\* 3 title contains it, 4 author contains it, 5 anything else
RelevanceRank(b, q) ==
  CASE CollEq(b.title, q) -> 1
    [] ~CollEq(b.title, q) /\ HasPrefix(b.title, q) -> 2
    [] ~HasPrefix(b.title, q) /\ Contains(b.title, q) -> 3
    [] ~Contains(b.title, q) /\ Contains(b.author, q) -> 4
    [] OTHER -> 5

\* C12: with sort_by=relevance (or absent) and a non-empty query, the answer
\* of an advanced search is ordered by rank and then by title ascending,
\* whatever search_type and sort_order are.
C12_RelevanceOrder ==
  [][\A p \in Procs :
       ( /\ AnsweredOp(p, "AdvancedSearch")
         /\ req'[p].res.err = ""
         /\ req'[p].raw.sortBy \in {"", "relevance"}
         /\ TrimSpace(req'[p].raw.query) # << >> )
       => LET data == req'[p].res.data
              q == TrimSpace(req'[p].raw.query)
          IN \A k, l \in 1..Len(data) :
               k < l =>
                 \/ RelevanceRank(data[k], q) < RelevanceRank(data[l], q)
                 \/ /\ RelevanceRank(data[k], q) = RelevanceRank(data[l], q)
                    /\ ~CollLess(data[l].title, data[k].title)
    ]_vars

\* C12 witness: a relevance search with sort_order=DESC for "a" answered a
\* book titled "a", then one titled "ab", then one whose author only matches
C12_Witness ==
  \E p \in Procs :
    /\ Done(p, "AdvancedSearch")
    /\ req[p].raw.sortOrder = "DESC" /\ req[p].raw.query = <<"a">>
    /\ Len(req[p].res.data) = 3
    /\ req[p].res.data[1].title = <<"a">>
    /\ req[p].res.data[2].title = <<"a", "b">>
    /\ req[p].res.data[3].title = <<"b">> /\ req[p].res.data[3].author = <<"a">>

\* C13: whatever sort_by and search_type are, every book that an advanced
\* search returns is non-deleted, satisfies the predicate of the search type
\* for the query when the query is non-empty, has the category of the category
\* parameter when that is non-empty, and has an author containing the author
\* parameter when that is non-empty.
C13_SearchFilters ==
  [][\A p \in Procs :
       (AnsweredOp(p, "AdvancedSearch") /\ req'[p].res.err = "") =>
         LET raw == req'[p].raw
             q == TrimSpace(raw.query)
             searchType == IF raw.searchType = "" THEN "contains" ELSE raw.searchType
         IN \A b \in Returned(p) :
              /\ ~books[b.id].deleted
              /\ q # << >> => SearchTypeMatch(b, q, searchType)
              /\ TrimSpace(raw.category) # << >> =>
                   CollEq(b.category, TrimSpace(raw.category))
              /\ TrimSpace(raw.author) # << >> =>
                   Contains(b.author, TrimSpace(raw.author))
    ]_vars

\* The number that a limit or offset of the query string stands for; Absent
\* when there is none or it is no number
Absent == 0 - 1000

NumberOf(str) ==
  CASE str = <<"-", "1">> -> 0 - 1
    [] str = <<"0">> -> 0
    [] str = <<"1">> -> 1
    [] str = <<"2">> -> 2
    [] str = <<"2", "0">> -> 20
    [] str = <<"2", "1">> -> 21
    [] str = <<"1", "0", "0">> -> 100
    [] str = <<"1", "0", "1">> -> 101
    [] OTHER -> Absent

\* C14: the limit that an advanced search sends to the repository is the
\* requested one when that is in 1..100 and 20 otherwise (0, negative, above
\* 100, absent, no number); the offset is the requested one when that is at
\* least 0 and 0 otherwise; sorted by a column, the answer holds at most that
\* many books.
C14_LimitOffset ==
  [][\A p \in Procs :
       (AnsweredOp(p, "AdvancedSearch") /\ req'[p].res.err = "") =>
         LET limit == NumberOf(req'[p].raw.limit)
             offset == NumberOf(req'[p].raw.offset)
         IN /\ req'[p].issued
            /\ req'[p].params.limit = IF limit >= 1 /\ limit <= 100 THEN limit ELSE 20
            /\ req'[p].params.offset = IF offset >= 0 THEN offset ELSE 0
            /\ req'[p].raw.sortBy = "title" =>
                 Len(req'[p].res.data) <= req'[p].params.limit
    ]_vars

\* C14 witness: a search with limit=101 and offset=-1 was sent to the
\* repository with limit 20 and offset 0
C14_Witness ==
  \E p \in Procs :
    /\ Done(p, "AdvancedSearch") /\ req[p].issued
    /\ req[p].raw.limit = <<"1", "0", "1">> /\ req[p].raw.offset = <<"-", "1">>
    /\ req[p].params.limit = 20 /\ req[p].params.offset = 0

\* C15: an advanced search fails with InvalidSearchType, InvalidSortField or
\* InvalidSortOrder when search_type, sort_by or sort_order is non-empty and
\* not a recognized value, the search type being reported before the sort
\* field and that before the sort order, and then sends nothing to the
\* repository; empty values stand for contains, relevance and ASC and do not
\* fail.
C15_InvalidSearchParams ==
  [][\A p \in Procs :
       AnsweredOp(p, "AdvancedSearch") =>
         LET raw == req'[p].raw
             badType == raw.searchType \notin {"", "exact", "starts_with", "contains", "fuzzy"}
             badField == raw.sortBy \notin
                           {"", "title", "author", "category", "created_at", "relevance"}
             badOrder == raw.sortOrder \notin {"", "ASC", "DESC"}
         IN /\ req'[p].res.err = IF badType THEN "InvalidSearchType"
                                 ELSE IF badField THEN "InvalidSortField"
                                 ELSE IF badOrder THEN "InvalidSortOrder"
                                 ELSE ""
            /\ req'[p].res.err # "" =>
                 /\ ~req'[p].issued
                 /\ req'[p].res.status = 400
                 /\ req'[p].res.data = << >>
            /\ req'[p].res.err = "" =>
                 /\ req'[p].issued
                 /\ raw.searchType = "" => req'[p].params.searchType = "contains"
                 /\ raw.sortBy = "" => req'[p].params.sortBy = "relevance"
                 /\ raw.sortOrder = "" => req'[p].params.sortOrder = "ASC"
    ]_vars

\* C15 witness: a search with an unknown search_type, sort_by and sort_order
\* failed with InvalidSearchType
C15_Witness ==
  \E p \in Procs :
    /\ Done(p, "AdvancedSearch")
    /\ req[p].raw.searchType = "regex" /\ req[p].raw.sortBy = "id"
    /\ req[p].raw.sortOrder = "asc"
    /\ req[p].res.err = "InvalidSearchType"

\* A payload field that validation has to reject: empty after trimming or
\* longer than 255 characters
InvalidField(value) == TrimSpace(value) = << >> \/ Len(value) > 255

\* The first field, in the order title, author, category, to reject
FirstInvalidField(body) ==
  IF InvalidField(body.title) THEN "title"
  ELSE IF InvalidField(body.author) THEN "author"
  ELSE IF InvalidField(body.category) THEN "category"
  ELSE ""

\* C16: a book payload fails validation exactly when its title, author or
\* category is empty after trimming or longer than 255 characters (255 are
\* accepted), the first such field in the order title, author, category being
\* reported; a favorite payload fails validation exactly when its book
\* identifier is zero; a request that fails validation changes nothing.
C16_Validation ==
  [][\A p \in Procs :
       /\ AnsweredOp(p, "CreateBook") =>
            /\ req'[p].res.err = "ValidationError" <=>
                 FirstInvalidField(req'[p].body) # ""
            /\ (req'[p].res.err = "ValidationError" /\ BindBookRequest(req'[p].body)) =>
                 req'[p].res.field = FirstInvalidField(req'[p].body)
            /\ req'[p].res.err = "ValidationError" =>
                 books' = books /\ favorites' = favorites
       /\ AnsweredOp(p, "AddFavorite") =>
            /\ req'[p].res.err = "ValidationError" <=> req'[p].id = 0
            /\ req'[p].res.err = "ValidationError" =>
                 books' = books /\ favorites' = favorites
    ]_vars

\* A non-deleted book other than id holds the title
HeldByOther(bs, id, title) ==
  \E i \in 1..Len(bs) :
    i # id /\ ~bs[i].deleted /\ NormTitle(bs[i].title) = NormTitle(title)

\* C17: an updateBook with a valid payload, run without interleaving, fails
\* with NotFound when its target is not a non-deleted book, whoever holds the
\* new title; otherwise fails with DuplicateTitle when another non-deleted
\* book holds the new title; otherwise succeeds and replaces the target's
\* title, author and category by the payload's; a failure changes no book.
C17_UpdateBook ==
  [][\A p \in Procs :
       ( /\ AnsweredOp(p, "UpdateBook")
         /\ req'[p].alone
         /\ ValidBody(req'[p].body) )
       => LET id == req'[p].id
              body == req'[p].body
          IN IF ~BookLive(books, id)
             THEN req'[p].res.err = "NotFound" /\ books' = books
             ELSE IF HeldByOther(books, id, body.title)
             THEN req'[p].res.err = "DuplicateTitle" /\ books' = books
             ELSE /\ req'[p].res.err = ""
                  /\ Len(books') = Len(books)
                  /\ IsTrimOf(books'[id].title, body.title)
                  /\ IsTrimOf(books'[id].author, body.author)
                  /\ IsTrimOf(books'[id].category, body.category)
                  /\ ~books'[id].deleted
                  /\ \A i \in 1..Len(books) : i # id => books'[i] = books[i]
    ]_vars

\* The books that GET /books has to list for a search term and a category
Listed(bs, search, category) ==
  {i \in 1..Len(bs) :
     /\ ~bs[i].deleted
     /\ search # << >> => (Contains(bs[i].title, search) \/ Contains(bs[i].author, search))
     /\ category # << >> => CollEq(bs[i].category, category)}

\* C18: listBooks returns exactly the non-deleted books that contain the
\* search term in the title or in the author (when a term is given) and whose
\* category equals the category (when one is given), each of them once.
C18_ListBooks ==
  [][\A p \in Procs :
       AnsweredOp(p, "GetBooks") =>
         /\ {b.id : b \in Returned(p)} =
              Listed(books, TrimSpace(req'[p].q), TrimSpace(req'[p].cat))
         /\ Cardinality(Returned(p)) = Len(req'[p].res.data)
    ]_vars

\* C19: getSuggestions with a non-empty query returns at most the effective
\* limit (the requested one when in 1..20, else 10) strings, no two of them
\* equal, each the title or the author of a non-deleted book and each
\* containing the query; with an empty query it returns nothing and sends no
\* query to the store.
C19_Suggestions ==
  [][\A p \in Procs :
       AnsweredOp(p, "GetSearchSuggestions") =>
         LET query == TrimSpace(req'[p].raw.query)
             limit == NumberOf(req'[p].raw.limit)
             data == req'[p].res.data
         IN IF query = << >>
            THEN data = << >> /\ ~req'[p].issued
            ELSE /\ Len(data) <= (IF limit >= 1 /\ limit <= 20 THEN limit ELSE 10)
                 /\ \A j, k \in 1..Len(data) : j # k => data[j] # data[k]
                 /\ \A k \in 1..Len(data) :
                      /\ \E i \in 1..Len(books) :
                           ~books[i].deleted /\ data[k] \in {books[i].title, books[i].author}
                      /\ Contains(data[k], query)
    ]_vars

\* C20: a POST /books or PUT /books/{id} refused for a duplicate title is
\* answered 409, a POST /favorites refused because the book is already a
\* favorite is answered 409, and a PUT refused because its target is not
\* there (any more) is answered 404.
C20_StatusCodes ==
  [][\A p \in Procs :
       /\ (AnsweredOp(p, "CreateBook") /\ req'[p].res.err = "DuplicateTitle") =>
            req'[p].res.status = 409
       /\ (AnsweredOp(p, "UpdateBook") /\ req'[p].res.err = "DuplicateTitle") =>
            req'[p].res.status = 409
       /\ (AnsweredOp(p, "UpdateBook") /\ req'[p].res.err = "NotFound") =>
            req'[p].res.status = 404
       /\ (AnsweredOp(p, "AddFavorite") /\ req'[p].res.err = "AlreadyFavorited") =>
            req'[p].res.status = 409
    ]_vars

\* C21: a createBook whose write is rejected (no row written) while a
\* non-deleted book holds its title fails with DuplicateTitle, and an
\* addFavorite whose write is rejected while the user has a non-deleted
\* favorite for the book fails with AlreadyFavorited; the request is answered
\* by that step, without another write.
C21_WriteConflicts ==
  [][\A p \in Procs :
       /\ ( /\ AnsweredOp(p, "CreateBook")
            /\ req[p].pc = "cb_create"
            /\ books' = books
            /\ HeldByOther(books, 0, req[p].body.title) )
          => req'[p].res.err = "DuplicateTitle"
       /\ ( /\ AnsweredOp(p, "AddFavorite")
            /\ req[p].pc = "af_create"
            /\ favorites' = favorites
            /\ FavoritesOf(favorites, req[p].user, req[p].id) # {} )
          => req'[p].res.err = "AlreadyFavorited"
    ]_vars

\* C22: a POST /books whose body carries a non-empty title and author and no
\* category, for a title that no non-deleted book holds, is answered 201 and
\* the book is stored.
C22_CreateWithoutCategory ==
  [][\A p \in Procs :
       ( /\ AnsweredOp(p, "CreateBook")
         /\ req'[p].alone
         /\ ~InvalidField(req'[p].body.title)
         /\ ~InvalidField(req'[p].body.author)
         /\ req'[p].body.category = << >>
         /\ ~HeldByOther(books, 0, req'[p].body.title) )
       => /\ req'[p].res.status = 201
          /\ Len(books') = Len(books) + 1
          /\ IsTrimOf(books'[Len(books')].title, req'[p].body.title)
    ]_vars

\* C23: a createBook, updateBook, deleteBook, addFavorite or removeFavorite
\* that returns an error has written nothing: the step that answers it
\* leaves books and favorites as they are, and an addFavorite that returns an
\* error has created no favorite in an earlier step.
C23_NoPartialFailure ==
  [][\A p \in Procs :
       ( /\ Answered(p)
         /\ req'[p].op \in {"CreateBook", "UpdateBook", "DeleteBook",
                            "AddFavorite", "RemoveFavorite"}
         /\ req'[p].res.err # "" )
       => /\ books' = books
          /\ favorites' = favorites
          /\ req'[p].newid = 0
    ]_vars

\* C24: an advanced search that is accepted returns at most the effective
\* limit of books, namely those at positions offset+1 .. offset+limit of what
\* the same search returns without paging, for every sort field, relevance
\* with a non-empty query included.
C24_Pagination ==
  [][\A p \in Procs :
       (AnsweredOp(p, "AdvancedSearch") /\ req'[p].res.err = "") =>
         LET params == req'[p].params
             data == req'[p].res.data
             all == AdvancedSearchRows(books, [params EXCEPT !.limit = MaxLimit,
                                                             !.offset = 0])
             page == Page(all, params.limit, params.offset)
         IN /\ Len(data) <= params.limit
            /\ [k \in 1..Len(data) |-> data[k].id] = page
    ]_vars

\* The words of the term that are longer than two characters
WordsOver2(term) == SelectSeq(Fields(term), LAMBDA word : Len(word) > 2)

\* The term with every occurrence of a key of the table replaced by a variant
\* of that key, for the keys that occur in the term
VariantsOf(term) ==
  UNION {{ReplaceAll(term, substitutions[k].key, substitutions[k].subs[j]) :
            j \in 1..Len(substitutions[k].subs)} :
           k \in {i \in 1..Len(substitutions) : StrContains(term, substitutions[i].key)}}

\* C25: the patterns that a fuzzy search generates for the trimmed term are
\* the term, then its words longer than two characters in their order, then
\* the variants of the term for the keys of the table that occur in it (none
\* when none occurs), and no pattern is generated twice.
C25_FuzzyPatterns ==
  [][\A p \in Procs :
       ( /\ AnsweredOp(p, "AdvancedSearch")
         /\ req'[p].res.err = ""
         /\ req'[p].params.searchType = "fuzzy" )
       => LET term == TrimSpace(req'[p].params.query)
              patterns == req'[p].patterns
              words == WordsOver2(term)
          IN /\ Len(patterns) >= 1 + Len(words)
             /\ patterns[1] = term
             /\ SubSeq(patterns, 2, 1 + Len(words)) = words
             /\ {patterns[k] : k \in (2 + Len(words))..Len(patterns)} = VariantsOf(term)
             /\ \A j, k \in 1..Len(patterns) : j # k => patterns[j] # patterns[k]
    ]_vars

\* C26: removeFavorite(userID, favoriteID) changes no book and no favorite
\* other than the one with that identifier, and that one only when userID
\* owns it, in which case it is marked deleted and otherwise kept as it is.
C26_RemoveFavoriteScoped ==
  [][\A p \in Procs :
       AnsweredOp(p, "RemoveFavorite") =>
         /\ books' = books
         /\ Len(favorites') = Len(favorites)
         /\ \A f \in 1..Len(favorites) :
              IF f = req'[p].id /\ favorites[f].user = req'[p].user
              THEN favorites'[f] = [favorites[f] EXCEPT !.deleted = TRUE]
              ELSE favorites'[f] = favorites[f]
    ]_vars

\* C26 witness: a removeFavorite that named the favorite of another user was
\* answered and that favorite is still there
C26_Witness ==
  \E p \in Procs :
    /\ Done(p, "RemoveFavorite")
    /\ FavLive(favorites, req[p].id)
    /\ favorites[req[p].id].user # req[p].user

\* C27: a fuzzy advanced search with a non-empty query, sorted by a column,
\* whose page holds the whole result, returns every non-deleted book whose
\* title or author contains the query and that passes the category and the
\* author filter.
C27_FuzzyIncludesContains ==
  [][\A p \in Procs :
       ( /\ AnsweredOp(p, "AdvancedSearch")
         /\ req'[p].res.err = ""
         /\ req'[p].params.searchType = "fuzzy"
         /\ req'[p].params.sortBy # "relevance"
         /\ req'[p].params.query # << >>
         /\ req'[p].params.offset = 0
         /\ req'[p].params.limit >= Len(books) )
       => LET params == req'[p].params
              term == TrimSpace(params.query)
          IN \A i \in 1..Len(books) :
               ( /\ ~books[i].deleted
                 /\ Contains(books[i].title, term) \/ Contains(books[i].author, term)
                 /\ params.category # << >> =>
                      CollEq(books[i].category, TrimSpace(params.category))
                 /\ params.author # << >> =>
                      Contains(books[i].author, TrimSpace(params.author)) )
               => i \in {b.id : b \in Returned(p)}
    ]_vars

\* C27 witness: a fuzzy search sorted by title returned a book that contains
\* the query, a term that is no word of more than two characters
C27_Witness ==
  \E p \in Procs :
    /\ Done(p, "AdvancedSearch") /\ req[p].res.err = ""
    /\ req[p].params.searchType = "fuzzy" /\ req[p].params.sortBy = "title"
    /\ req[p].params.query = <<"a", "b">>
    /\ \E k \in 1..Len(req[p].res.data) :
         Contains(req[p].res.data[k].title, req[p].params.query)

\* C28: an addFavorite(u, b), run without interleaving on a non-deleted book
\* b for which u had a favorite that was removed and has none now, succeeds
\* and creates a favorite.
C28_FavoriteAgain ==
  [][\A p \in Procs :
       ( /\ AnsweredOp(p, "AddFavorite")
         /\ req'[p].alone
         /\ BookLive(books, req'[p].id)
         /\ FavoritesOf(favorites, req'[p].user, req'[p].id) \ {req'[p].newid} = {}
         /\ \E f \in 1..Len(favorites) :
              /\ favorites[f].deleted
              /\ favorites[f].user = req'[p].user
              /\ favorites[f].book = req'[p].id )
       => /\ req'[p].res.err = ""
          /\ FavLive(favorites', req'[p].newid)
    ]_vars

\* A soft-deleted book other than id holds the title
HeldByDeleted(bs, id, title) ==
  \E i \in 1..Len(bs) :
    i # id /\ bs[i].deleted /\ NormTitle(bs[i].title) = NormTitle(title)

\* C29: a createBook with a valid payload whose title is held by a deleted
\* book and by no non-deleted one succeeds and stores the book; an updateBook
\* of a non-deleted book to such a title succeeds and sets the title (both run
\* without interleaving).
C29_DeletedTitleFree ==
  [][\A p \in Procs :
       /\ ( /\ AnsweredOp(p, "CreateBook")
            /\ req'[p].alone
            /\ ValidBody(req'[p].body)
            /\ HeldByDeleted(books, 0, req'[p].body.title)
            /\ ~HeldByOther(books, 0, req'[p].body.title) )
          => /\ req'[p].res.err = ""
             /\ Len(books') = Len(books) + 1
             /\ IsTrimOf(books'[Len(books')].title, req'[p].body.title)
             /\ ~books'[Len(books')].deleted
       /\ ( /\ AnsweredOp(p, "UpdateBook")
            /\ req'[p].alone
            /\ ValidBody(req'[p].body)
            /\ BookLive(books, req'[p].id)
            /\ HeldByDeleted(books, req'[p].id, req'[p].body.title)
            /\ ~HeldByOther(books, req'[p].id, req'[p].body.title) )
          => /\ req'[p].res.err = ""
             /\ IsTrimOf(books'[req'[p].id].title, req'[p].body.title)
    ]_vars

\* C29 witness: a book was created under the title of a deleted book
C29_Witness ==
  \E p \in Procs :
    /\ Done(p, "CreateBook") /\ req[p].alone /\ req[p].res.err = ""
    /\ BookLive(books, req[p].res.id)
    /\ HeldByDeleted(books, req[p].res.id, req[p].body.title)
    /\ ~HeldByOther(books, req[p].res.id, req[p].body.title)

\* The strings of the non-deleted books
LiveStrings(bs) ==
  UNION {{bs[i].title, bs[i].author} : i \in {j \in 1..Len(bs) : ~bs[j].deleted}}

=============================================================================
